---- MODULE Spec2Model ----
(***************************************************************************)
(* A model of strawberryfields/api_client.py: the Resource / Field /       *)
(* ResourceManager binding protocol over the APIClient transport.          *)
(*                                                                         *)
(* Python values are tagged tuples, so that None, the integer 42 and the   *)
(* string "42" are three different values:                                 *)
(*     PyNone = <<"none">>   PyInt(42) = <<"int", 42>>                      *)
(*     PyStr("42") = <<"str", "42">>                                        *)
(* A call that raises is recorded by the name of the exception class.      *)
(***************************************************************************)
EXTENDS Integers, Sequences, FiniteSets, TLC

VARIABLES
    cls,                \* cls[r]: the class of resource object r
    PATH,               \* PATH[r]: Resource.PATH of r (instance attribute for JobResult/JobCircuit)
    SUPPORTED_METHODS,  \* SUPPORTED_METHODS[r]
    fields,             \* fields[r]: the ordered tuple of <<name, clean>> of r's Field objects
    value,              \* value[r][name]: Field.value of the field called name
    http_status_code,   \* http_status_code[r]: ResourceManager.http_status_code of r.manager
    client,             \* client[r]: the APIClient held by r.manager
    client_id,          \* client_id[r]: which APIClient object r.manager holds (its identity)
    result,             \* result[r]: the attribute result of the Job r
    circuit,            \* circuit[r]: the attribute circuit of the Job r
    environ,            \* environ[key]: os.environ.get(key) of the process
    clients,            \* the APIClient objects the caller has constructed itself
    afterCreate,        \* history: afterCreate[r] = what the last successful create on r left
    last                \* the last call made by the caller and everything it did

vars == <<cls, PATH, SUPPORTED_METHODS, fields, value, http_status_code, client,
          client_id, result, circuit, environ, clients, afterCreate, last>>

-----------------------------------------------------------------------------
(* Python values *)

PyNone == <<"none">>
PyInt(n) == <<"int", n>>
PyStr(s) == <<"str", s>>
PyBool(b) == <<"bool", b>>
PyList(s) == <<"list", s>>
PyDatetime(s) == <<"datetime", s>>
Raise(e) == <<"raise", e>>

IsRaise(v) == v[1] = "raise"

\* The integers whose decimal text int() and json.loads meet in this model.
IntLiterals == {0, 7, 42}

\* str(v)
py_str(v) ==
    CASE v[1] = "none" -> "None"
      [] v[1] = "int"  -> ToString(v[2])
      [] v[1] = "str"  -> v[2]

\* bool(v), the truth value Python tests in `if v` and `not v`
py_bool(v) ==
    CASE v[1] = "none" -> FALSE
      [] v[1] = "bool" -> v[2]
      [] v[1] = "int"  -> v[2] # 0
      [] v[1] = "str"  -> v[2] # ""

\* int(v): an int stays, a decimal string is parsed, any other string is a ValueError
py_int(v) ==
    CASE v[1] = "int" -> v
      [] v[1] = "str" ->
            IF \E n \in IntLiterals : ToString(n) = v[2]
            THEN PyInt(CHOOSE n \in IntLiterals : ToString(n) = v[2])
            ELSE Raise("ValueError")
      [] OTHER -> Raise("TypeError")

\* The timestamp texts dateutil.parser.parse accepts in this model.
Timestamps == {"2019-01-01T00:00:00Z"}

\* dateutil.parser.parse(v)
dateutil_parse(v) ==
    CASE v[1] = "str" -> IF v[2] \in Timestamps THEN PyDatetime(v[2])
                         ELSE Raise("ValueError")
      [] OTHER -> Raise("TypeError")

\* json.loads(v)
json_loads(v) ==
    CASE v[1] = "str" ->
            IF v[2] = "null" THEN PyNone
            ELSE IF v[2] = "[1, 2]" THEN PyList(<<1, 2>>)
            ELSE IF \E n \in IntLiterals : ToString(n) = v[2]
                 THEN PyInt(CHOOSE n \in IntLiterals : ToString(n) = v[2])
            ELSE Raise("ValueError")
      [] OTHER -> Raise("TypeError")

\* json.dumps(params) for the parameter maps the caller passes to create
json_dumps(params) ==
    IF DOMAIN params = {} THEN "{}"
    ELSE "{\"name\": \"" \o params["name"] \o "\"}"

\* dict.get(key, None)
dict_get(d, key) == IF key \in DOMAIN d THEN d[key] ELSE PyNone

\* d after d.update(e)
dict_update(d, e) ==
    [k \in DOMAIN d \cup DOMAIN e |-> IF k \in DOMAIN e THEN e[k] ELSE d[k]]

Range(s) == {s[i] : i \in 1..Len(s)}

-----------------------------------------------------------------------------
(* join_path *)

\* urllib.parse.urljoin(base, url) for a base that ends with "/" and a
\* relative url without "/" or ":": the url is appended, an empty url gives base
urljoin(base, url) == IF url = "" THEN base ELSE base \o url

join_path(base_path, path) == urljoin(base_path \o "/", path)

-----------------------------------------------------------------------------
(* APIClient *)

ALLOWED_HOSTNAMES == {"localhost"}
DEFAULT_HOSTNAME == "localhost"

ENV_AUTHENTICATION_TOKEN_KEY == "SF_API_AUTHENTICATION_TOKEN"
ENV_API_HOSTNAME_KEY == "SF_API_API_HOSTNAME"
ENV_USE_SSL_KEY == "SF_API_USE_SSL"

EnvKeys == {ENV_AUTHENTICATION_TOKEN_KEY, ENV_API_HOSTNAME_KEY, ENV_USE_SSL_KEY}

\* A process environment without SF_API_ variables
NoEnviron == [k \in EnvKeys |-> PyNone]

\* APIClient.get_configuration_from_environment: the variables that are set
get_configuration_from_environment(env) ==
    LET configuration ==
            [authentication_token |-> env[ENV_AUTHENTICATION_TOKEN_KEY],
             hostname |-> env[ENV_API_HOSTNAME_KEY],
             use_ssl |-> env[ENV_USE_SSL_KEY]]
    IN [key \in {k \in DOMAIN configuration : configuration[k] # PyNone}
            |-> configuration[key]]

\* The configuration APIClient.__init__ builds from its defaults, the
\* environment and its keyword arguments
Configuration(kwargs, env) ==
    dict_update(
        dict_update([use_ssl |-> PyBool(TRUE), hostname |-> PyStr(DEFAULT_HOSTNAME),
                     authentication_token |-> PyNone],
                    get_configuration_from_environment(env)),
        kwargs)

\* The object APIClient.__init__ leaves for a configuration
NewClient(configuration) ==
    [USE_SSL |-> configuration["use_ssl"],
     HOSTNAME |-> configuration["hostname"],
     BASE_URL |-> (IF py_bool(configuration["use_ssl"]) THEN "https" ELSE "http")
                    \o "://" \o py_str(configuration["hostname"]),
     AUTHENTICATION_TOKEN |-> configuration["authentication_token"],
     HEADERS |-> <<>>]

\* APIClient.__init__ without the test of ALLOWED_HOSTNAMES
APIClient__init__NoAllowList(kwargs, env) ==
    LET configuration == Configuration(kwargs, env)
    IN IF configuration["hostname"] = PyNone
       THEN [raised |-> "ValueError", warnings |-> <<>>, self |-> <<>>]
       ELSE [raised |-> "",
             warnings |-> IF ~py_bool(configuration["use_ssl"])
                          THEN <<"Connecting insecurely to API server">> ELSE <<>>,
             self |-> <<NewClient(configuration)>>]

\* APIClient.__init__(**kwargs) in the environment env: the exception raised
\* ("" for none), the warnings, and the object constructed (none when it raises)
APIClient__init__(kwargs, env) ==
    LET configuration == Configuration(kwargs, env)
    IN IF configuration["hostname"] = PyNone
       THEN [raised |-> "ValueError", warnings |-> <<>>, self |-> <<>>]
       ELSE IF configuration["hostname"] \notin {PyStr(h) : h \in ALLOWED_HOSTNAMES}
       THEN [raised |-> "ValueError", warnings |-> <<>>, self |-> <<>>]
       ELSE [raised |-> "",
             warnings |-> IF ~py_bool(configuration["use_ssl"])
                          THEN <<"Connecting insecurely to API server">> ELSE <<>>,
             self |-> <<NewClient(configuration)>>]

\* APIClient() without arguments and without SF_API_ environment variables
DefaultClient == APIClient__init__(<<>>, NoEnviron).self[1]

\* APIClient.set_authorization_header: the object has the attribute HEADERS
\* and no attribute headers, and reading a missing attribute is an AttributeError
APIClient_set_authorization_header(c, authentication_token) ==
    IF "headers" \in DOMAIN c
    THEN [raised |-> "",
          self |-> [c EXCEPT !["headers"] =
                        dict_update(c["headers"],
                                    [Authorization |-> authentication_token])]]
    ELSE [raised |-> "AttributeError", self |-> c]

APIClient_join_path(c, path) == join_path(c.BASE_URL, path)

\* The request APIClient.get hands to requests.get
APIClient_get(c, path) ==
    [method |-> "GET", url |-> APIClient_join_path(c, path),
     headers |-> c.HEADERS, data |-> PyNone]

\* The request APIClient.post hands to requests.post
APIClient_post(c, path, payload) ==
    [method |-> "POST", url |-> APIClient_join_path(c, path),
     headers |-> c.HEADERS, data |-> PyStr(json_dumps(payload))]

-----------------------------------------------------------------------------
(* Field *)

\* Field.clean applied to a raw value
Clean(clean, v) ==
    CASE clean = "int" -> py_int(v)
      [] clean = "str" -> PyStr(py_str(v))
      [] clean = "dateutil.parser.parse" -> dateutil_parse(v)
      [] clean = "json.loads" -> json_loads(v)

\* Field.__bool__ as the truthiness of the raw value
Field__bool__Truthy(v) == v \notin {PyNone, PyInt(0), PyStr("")}

\* Field.__bool__
Field__bool__(v) == v # PyNone

\* Field without __str__: str(field) is the default text of an object
Field__str__Default(v) == "<Field object>"

\* Field.__str__
Field__str__(v) == py_str(v)

\* Field.set that stores the text of the value
Field_set_Text(v) == IF v = PyNone THEN v ELSE PyStr(py_str(v))

\* Field.set
Field_set(v) == v

\* Field.cleaned_value guarded by the truthiness of the raw value
Field_cleaned_value_Truthy(clean, v) ==
    IF v \notin {PyNone, PyInt(0), PyStr("")} THEN Clean(clean, v) ELSE PyNone

\* Field.cleaned_value: the value returned, or Raise(e) when clean raises e
Field_cleaned_value(clean, v) == IF v # PyNone THEN Clean(clean, v) ELSE PyNone

-----------------------------------------------------------------------------
(* Resource classes *)

Job_fields ==
    << <<"id", "int">>, <<"status", "str">>, <<"result_url", "str">>,
       <<"circuit_url", "str">>, <<"created_at", "dateutil.parser.parse">>,
       <<"started_at", "dateutil.parser.parse">>,
       <<"finished_at", "dateutil.parser.parse">>, <<"running_time", "str">> >>

JobResult_fields == << <<"result", "json.loads">> >>

JobCircuit_fields == << <<"circuit", "str">> >>

FieldNames(fs) == {fs[i][1] : i \in 1..Len(fs)}

CleanOf(fs, name) == fs[CHOOSE i \in 1..Len(fs) : fs[i][1] = name][2]

\* "jobs/{job_id}/<leaf>".format(job_id=job_id)
PATH_format(leaf, job_id) == "jobs/" \o py_str(job_id) \o "/" \o leaf

-----------------------------------------------------------------------------
(* What the server and the caller can supply *)

Response(status_code, json) == <<"response", status_code, json>>

StatusCodes == {200, 201, 400, 401, 404, 409, 500, 503, 504}

\* JSON bodies of 200/201 responses
Bodies ==
    { [id |-> PyInt(42), status |-> PyStr("queued")],
      [id |-> PyInt(42), status |-> PyStr("complete"),
       result_url |-> PyStr("https://localhost/jobs/42/result"),
       created_at |-> PyStr("2019-01-01T00:00:00Z"), extra |-> PyStr("x")],
      <<>>,
      [id |-> PyInt(0), result |-> PyStr("null")],
      [id |-> PyStr(""), result |-> PyStr("[1, 2]"), circuit |-> PyStr("Circuit")],
      [id |-> PyNone, status |-> PyStr("queued")],
      [id |-> PyStr("abc"), created_at |-> PyStr("not a date"),
       result |-> PyStr("oops")] }

\* JSON body of the other responses
ErrorBody == [detail |-> PyStr("error")]

\* What APIClient.get / APIClient.post return: a response, or None after a
\* requests.exceptions.ConnectionError
Outcomes ==
    {PyNone}
    \cup {Response(c, b) : c \in {200, 201}, b \in Bodies}
    \cup {Response(c, ErrorBody) : c \in StatusCodes \ {200, 201}}

\* Arguments the caller passes to ResourceManager.get
JobIds == {PyInt(42), PyStr("")}

\* Arguments the caller passes to ResourceManager.create
Params == {<<>>, [name |-> "x"]}

\* Job ids JobResult and JobCircuit are constructed for
BoundJobIds == {PyInt(42), PyInt(7)}

\* The most APIClient objects the caller constructs itself
MaxClients == 2

\* Values of the SF_API_ variables; None for a variable that is not set
Environs ==
    {env \in [EnvKeys -> {PyNone, PyStr("False"), PyStr("localhost"),
                          PyStr("example.com"), PyStr("env-token")}] :
        /\ env[ENV_USE_SSL_KEY] \in {PyNone, PyStr("False")}
        /\ env[ENV_API_HOSTNAME_KEY] \in {PyNone, PyStr("localhost"), PyStr("example.com")}
        /\ env[ENV_AUTHENTICATION_TOKEN_KEY] \in {PyNone, PyStr("env-token")}}

\* Marks a keyword argument the caller does not pass
Unset == <<"unset">>

\* Keyword arguments the caller passes to APIClient
Kwargs ==
    {[key \in {k \in DOMAIN choice : choice[k] # Unset} |-> choice[key]] :
        choice \in
            {c \in [{"use_ssl", "hostname", "authentication_token"} ->
                        {Unset, PyNone, PyBool(TRUE), PyBool(FALSE), PyStr("localhost"),
                         PyStr("example.com"), PyStr("token")}] :
                /\ c["use_ssl"] \in {Unset, PyBool(TRUE), PyBool(FALSE)}
                /\ c["hostname"] \in {Unset, PyNone, PyStr("localhost"),
                                      PyStr("example.com")}
                /\ c["authentication_token"] \in {Unset, PyStr("token")}}}

\* Tokens the caller passes to set_authorization_header
Tokens == {PyStr("token"), PyStr("other-token")}

\* Paths the caller passes to APIClient.get and APIClient.post
ClientPaths == {"jobs", "jobs/42"}

\* What requests.get / requests.post do for a call on an APIClient itself
ClientOutcomes == {PyNone, Response(200, <<>>)}

-----------------------------------------------------------------------------
(* ResourceManager *)

\* What a call did: the requests sent, the response received, the resource's
\* Field values and the manager's status code afterwards, the exception raised
\* ("" when the call returned) and the warnings emitted
Done(sent, response, val, code, raised, warnings) ==
    [sent |-> sent, response |-> response, value |-> val,
     http_status_code |-> code, raised |-> raised, warnings |-> warnings]

\* A call that raises before it touches anything
Raised(r, e) == Done(<<>>, PyNone, value[r], http_status_code[r], e, <<>>)

ResourceManager_join_path(r, path) == join_path(PATH[r], path)

\* refresh_data as a merge: a field without a key in data keeps its value
refresh_data_Merge(fs, old, data) ==
    [n \in FieldNames(fs) |-> IF n \in DOMAIN data THEN Field_set(data[n]) ELSE old[n]]

\* refresh_data that stores the cleaned value of every field, and None for a
\* value its clean function rejects
refresh_data_Eager(fs, old, data) ==
    [n \in FieldNames(fs) |->
        LET c == Field_cleaned_value(CleanOf(fs, n), dict_get(data, n))
        IN IF IsRaise(c) THEN PyNone ELSE Field_set(c)]

\* ResourceManager.refresh_data: Field.value of every field after field.set
refresh_data(fs, old, data) ==
    [n \in FieldNames(fs) |-> Field_set(dict_get(data, n))]

\* ResourceManager.handle_error_response: the exception it raises ("" for none)
handle_error_response(status_code) ==
    CASE status_code = 400 -> ""
      [] status_code = 401 -> ""
      [] status_code = 409 -> ""
      [] status_code \in {500, 503, 504} -> ""
      [] OTHER -> ""

\* The success test without 201
IsSuccess_Only200(status_code) == status_code = 200

\* The test `response.status_code in (200, 201)`
IsSuccess(status_code) == status_code \in {200, 201}

\* handle_response that records the status code of a 200/201 response only
handle_response_StatusOnSuccess(r, response) ==
    IF response = PyNone
    THEN [value |-> value[r], http_status_code |-> http_status_code[r],
          raised |-> "AttributeError"]
    ELSE IF IsSuccess(response[2])
    THEN [value |-> refresh_data(fields[r], value[r], response[3]),
          http_status_code |-> PyInt(response[2]), raised |-> ""]
    ELSE [value |-> value[r], http_status_code |-> http_status_code[r],
          raised |-> handle_error_response(response[2])]

\* handle_response that refreshes from the body whatever the status code
handle_response_AlwaysRefresh(r, response) ==
    IF response = PyNone
    THEN [value |-> value[r], http_status_code |-> http_status_code[r],
          raised |-> "AttributeError"]
    ELSE [value |-> refresh_data(fields[r], value[r], response[3]),
          http_status_code |-> PyInt(response[2]), raised |-> ""]

\* ResourceManager.handle_response; reading status_code of None is an AttributeError
handle_response(r, response) ==
    IF response = PyNone
    THEN [value |-> value[r], http_status_code |-> http_status_code[r],
          raised |-> "AttributeError"]
    ELSE IF IsSuccess(response[2])
    THEN [value |-> refresh_data(fields[r], value[r], response[3]),
          http_status_code |-> PyInt(response[2]), raised |-> ""]
    ELSE [value |-> value[r], http_status_code |-> PyInt(response[2]),
          raised |-> handle_error_response(response[2])]

\* The warning of APIClient.get / APIClient.post after a ConnectionError
ConnectWarnings(outcome) ==
    IF outcome = PyNone THEN <<"Could not connect to server">> ELSE <<>>

\* ResourceManager.get that sends the request a second time when the
\* connection fails
ResourceManager_get_Retry(r, id_text, outcome) ==
    IF "GET" \notin SUPPORTED_METHODS[r]
    THEN Raised(r, "MethodNotSupportedException")
    ELSE LET h == handle_response(r, outcome)
             request == APIClient_get(client[r], ResourceManager_join_path(r, id_text))
         IN Done(IF outcome = PyNone THEN <<request, request>> ELSE <<request>>,
                 outcome, h.value, h.http_status_code, h.raised,
                 ConnectWarnings(outcome))

\* ResourceManager.get without the SUPPORTED_METHODS test
ResourceManager_get_NoCheck(r, id_text, outcome) ==
    LET h == handle_response(r, outcome)
    IN Done(<<APIClient_get(client[r], ResourceManager_join_path(r, id_text))>>,
            outcome, h.value, h.http_status_code, h.raised,
            ConnectWarnings(outcome))

\* ResourceManager.get with str(job_id) = id_text, the transport answering outcome
ResourceManager_get(r, id_text, outcome) ==
    IF "GET" \notin SUPPORTED_METHODS[r]
    THEN Raised(r, "MethodNotSupportedException")
    ELSE LET h == handle_response(r, outcome)
         IN Done(<<APIClient_get(client[r], ResourceManager_join_path(r, id_text))>>,
                 outcome, h.value, h.http_status_code, h.raised,
                 ConnectWarnings(outcome))

\* ResourceManager.create that tests the id after the request instead of before
ResourceManager_create_CheckAfterPost(r, params, outcome) ==
    IF "POST" \notin SUPPORTED_METHODS[r]
    THEN Raised(r, "MethodNotSupportedException")
    ELSE LET h == handle_response(r, outcome)
         IN Done(<<APIClient_post(client[r], PATH[r], params)>>,
                 outcome, h.value, h.http_status_code,
                 IF Field__bool__(value[r]["id"])
                 THEN "ObjectAlreadyCreatedException" ELSE h.raised,
                 ConnectWarnings(outcome))

\* ResourceManager.create without the test of the id
ResourceManager_create_NoIdCheck(r, params, outcome) ==
    IF "POST" \notin SUPPORTED_METHODS[r]
    THEN Raised(r, "MethodNotSupportedException")
    ELSE LET h == handle_response(r, outcome)
         IN Done(<<APIClient_post(client[r], PATH[r], params)>>,
                 outcome, h.value, h.http_status_code, h.raised,
                 ConnectWarnings(outcome))

\* ResourceManager.create
ResourceManager_create(r, params, outcome) ==
    IF "POST" \notin SUPPORTED_METHODS[r]
    THEN Raised(r, "MethodNotSupportedException")
    ELSE IF Field__bool__(value[r]["id"])
    THEN Raised(r, "ObjectAlreadyCreatedException")
    ELSE LET h == handle_response(r, outcome)
         IN Done(<<APIClient_post(client[r], PATH[r], params)>>,
                 outcome, h.value, h.http_status_code, h.raised,
                 ConnectWarnings(outcome))

\* Resource.reload without the test of the id
Resource_reload_NoGate(r, outcome) ==
    IF "id" \notin FieldNames(fields[r])
    THEN Raised(r, "TypeError")
    ELSE ResourceManager_get(r, Field__str__(value[r]["id"]), outcome)

\* Resource.reload that warns when the resource has no id attribute
Resource_reload_NoAttrCheck(r, outcome) ==
    IF "id" \in FieldNames(fields[r]) /\ Field__bool__(value[r]["id"])
    THEN ResourceManager_get(r, Field__str__(value[r]["id"]), outcome)
    ELSE Done(<<>>, PyNone, value[r], http_status_code[r], "",
              <<"Could not reload resource data">>)

\* Resource.reload
Resource_reload(r, outcome) ==
    IF "id" \notin FieldNames(fields[r])
    THEN Raised(r, "TypeError")
    ELSE IF Field__bool__(value[r]["id"])
    THEN ResourceManager_get(r, Field__str__(value[r]["id"]), outcome)
    ELSE Done(<<>>, PyNone, value[r], http_status_code[r], "",
              <<"Could not reload resource data">>)

\* The attributes the class Resource defines
ResourceAttributes == {"SUPPORTED_METHODS", "PATH", "fields", "__init__", "reload"}

\* Job.refresh_data: it starts with super().refresh_data(), and reading an
\* attribute Resource does not define is an AttributeError; past that it
\* replaces result and circuit only where they are not None
Job_refresh_data(r) ==
    IF "refresh_data" \notin ResourceAttributes
    THEN [raised |-> "AttributeError", result |-> result[r], circuit |-> circuit[r]]
    ELSE [raised |-> "",
          result |-> IF result[r] # PyNone
                     THEN <<"JobResult", value[r]["id"]>> ELSE result[r],
          circuit |-> IF circuit[r] # PyNone
                      THEN <<"JobCircuit", value[r]["id"]>> ELSE circuit[r]]

-----------------------------------------------------------------------------
(* Construction *)

\* The record of a call: the operation, the resource or the index of the
\* APIClient it is made on, its arguments, and what it did
Call(op, r, job_id, field, sent, response, raised, warnings, returned) ==
    [op |-> op, res |-> r, client |-> 0, job_id |-> job_id, field |-> field,
     kwargs |-> <<>>, token |-> PyNone, sent |-> sent, response |-> response,
     raised |-> raised, warnings |-> warnings, result |-> returned]

NoCall == Call("none", "", PyNone, "", <<>>, PyNone, "", <<>>, PyNone)

\* ResourceManager.__init__, `client or APIClient()`: supplied is <<>> for
\* client=None and <<i>> for the caller's object clients[i], which is truthy
\* as every APIClient object; APIClient() is a new object at each evaluation,
\* the one this manager constructed
ResourceManager__init__(r, supplied) ==
    IF supplied # <<>>
    THEN [client |-> clients[supplied[1]], client_id |-> <<"caller", supplied[1]>>]
    ELSE [client |-> APIClient__init__(<<>>, environ).self[1],
          client_id |-> <<"manager", r>>]

\* Resource.__init__ of one object r of class c: a manager with its own
\* APIClient(), every Field.value None, no status code
Resource__init__(r, c, path, methods, fs) ==
    /\ cls = (r :> c)
    /\ PATH = (r :> path)
    /\ SUPPORTED_METHODS = (r :> methods)
    /\ fields = (r :> fs)
    /\ value = (r :> [n \in FieldNames(fs) |-> PyNone])
    /\ http_status_code = (r :> PyNone)
    /\ environ = NoEnviron
    /\ client = (r :> ResourceManager__init__(r, <<>>).client)
    /\ client_id = (r :> ResourceManager__init__(r, <<>>).client_id)
    /\ result = [x \in (IF c = "Job" THEN {r} ELSE {}) |-> PyNone]
    /\ circuit = [x \in (IF c = "Job" THEN {r} ELSE {}) |-> PyNone]
    /\ clients = <<>>
    /\ afterCreate = (r :> PyNone)
    /\ last = NoCall

\* Resource()
NewResource == Resource__init__("r1", "Resource", "", {}, <<>>)

\* Job()
Job__init__ == Resource__init__("r1", "Job", "jobs", {"GET", "POST"}, Job_fields)

\* JobResult(job_id)
JobResult__init__ ==
    \E job_id \in BoundJobIds :
        Resource__init__("r1", "JobResult", PATH_format("result", job_id),
                         {"GET"}, JobResult_fields)

\* JobCircuit(job_id)
JobCircuit__init__ ==
    \E job_id \in BoundJobIds :
        Resource__init__("r1", "JobCircuit", PATH_format("circuit", job_id),
                         {"GET"}, JobCircuit_fields)

Init == NewResource \/ Job__init__ \/ JobResult__init__ \/ JobCircuit__init__

Resources == DOMAIN cls

-----------------------------------------------------------------------------
(* The caller's operations *)

\* A call that keeps the joined path of a get as the PATH of the resource
Finish_KeepsJoinedPath(op, r, job_id, d) ==
    /\ value' = [value EXCEPT ![r] = d.value]
    /\ http_status_code' = [http_status_code EXCEPT ![r] = d.http_status_code]
    /\ PATH' = IF op = "get" /\ d.sent # <<>>
               THEN [PATH EXCEPT ![r] = ResourceManager_join_path(r, py_str(job_id))]
               ELSE PATH
    /\ last' = Call(op, r, job_id, "", d.sent, d.response, d.raised, d.warnings,
                    PyNone)
    /\ UNCHANGED <<cls, SUPPORTED_METHODS, fields, client, client_id, result, circuit,
                   environ, clients>>

\* A call that assigns http_status_code on the class ResourceManager, where
\* every manager reads it
Finish_StatusOnClass(op, r, job_id, d) ==
    /\ value' = [value EXCEPT ![r] = d.value]
    /\ http_status_code' = [x \in DOMAIN http_status_code |-> d.http_status_code]
    /\ last' = Call(op, r, job_id, "", d.sent, d.response, d.raised, d.warnings,
                    PyNone)
    /\ UNCHANGED <<cls, PATH, SUPPORTED_METHODS, fields, client, client_id, result,
                   circuit, environ, clients>>

\* The state after a call on r that did d
Finish(op, r, job_id, d) ==
    /\ value' = [value EXCEPT ![r] = d.value]
    /\ http_status_code' = [http_status_code EXCEPT ![r] = d.http_status_code]
    /\ last' = Call(op, r, job_id, "", d.sent, d.response, d.raised, d.warnings,
                    PyNone)
    /\ UNCHANGED <<cls, PATH, SUPPORTED_METHODS, fields, client, client_id, result, circuit,
                   environ, clients>>

\* r.manager.get(job_id)
Get(r, job_id, outcome) ==
    /\ Finish("get", r, job_id, ResourceManager_get(r, py_str(job_id), outcome))
    /\ UNCHANGED afterCreate

\* r.manager.create(**params)
Create(r, params, outcome) ==
    LET d == ResourceManager_create(r, params, outcome)
    IN /\ Finish("create", r, PyNone, d)
       /\ afterCreate' =
            IF d.sent # <<>> /\ d.response # PyNone /\ d.raised = ""
               /\ d.response[2] \in {200, 201}
            THEN [afterCreate EXCEPT ![r] = <<"created", d.response[3], d.value>>]
            ELSE afterCreate

\* r.reload()
Reload(r, outcome) ==
    /\ Finish("reload", r, PyNone, Resource_reload(r, outcome))
    /\ UNCHANGED afterCreate

\* reading r.<name>.cleaned_value
ReadCleanedValue(r, name) ==
    LET c == Field_cleaned_value(CleanOf(fields[r], name), value[r][name])
    IN /\ last' = Call("cleaned_value", r, PyNone, name, <<>>, PyNone,
                       IF IsRaise(c) THEN c[2] ELSE "", <<>>,
                       IF IsRaise(c) THEN PyNone ELSE c)
       /\ UNCHANGED <<cls, PATH, SUPPORTED_METHODS, fields, value,
                      http_status_code, client, client_id, result, circuit, environ,
                      clients, afterCreate>>

\* bool(r.<name>)
ReadBool(r, name) ==
    /\ last' = Call("bool", r, PyNone, name, <<>>, PyNone, "", <<>>,
                    PyBool(Field__bool__(value[r][name])))
    /\ UNCHANGED <<cls, PATH, SUPPORTED_METHODS, fields, value,
                   http_status_code, client, client_id, result, circuit, environ,
                   clients, afterCreate>>

\* r.refresh_data() on a Job
JobRefreshData(r) ==
    LET d == Job_refresh_data(r)
    IN /\ cls[r] = "Job"
       /\ result' = [result EXCEPT ![r] = d.result]
       /\ circuit' = [circuit EXCEPT ![r] = d.circuit]
       /\ last' = Call("refresh_data", r, PyNone, "", <<>>, PyNone, d.raised,
                       <<>>, PyNone)
       /\ UNCHANGED <<cls, PATH, SUPPORTED_METHODS, fields, value,
                      http_status_code, client, client_id, environ, clients, afterCreate>>

\* APIClient(**kwargs) by the caller
ConstructAPIClient(kwargs) ==
    LET d == APIClient__init__(kwargs, environ)
    IN /\ Len(clients) < MaxClients
       /\ clients' = clients \o d.self
       /\ last' = [Call("APIClient", "", PyNone, "", <<>>, PyNone, d.raised,
                        d.warnings, PyNone)
                   EXCEPT !.kwargs = kwargs, !.client = Len(clients) + Len(d.self)]
       /\ UNCHANGED <<cls, PATH, SUPPORTED_METHODS, fields, value,
                      http_status_code, client, client_id, result, circuit, environ,
                      afterCreate>>

\* clients[i].set_authorization_header(token)
SetAuthorizationHeader(i, token) ==
    LET d == APIClient_set_authorization_header(clients[i], token)
    IN /\ clients' = [clients EXCEPT ![i] = d.self]
       /\ last' = [Call("set_authorization_header", "", PyNone, "", <<>>, PyNone,
                        d.raised, <<>>, PyNone)
                   EXCEPT !.client = i, !.token = token]
       /\ UNCHANGED <<cls, PATH, SUPPORTED_METHODS, fields, value,
                      http_status_code, client, client_id, result, circuit, environ,
                      afterCreate>>

\* clients[i].get(path)
ClientGet(i, path, outcome) ==
    /\ last' = [Call("APIClient.get", "", PyNone, "",
                     <<APIClient_get(clients[i], path)>>, outcome, "",
                     ConnectWarnings(outcome), outcome)
                EXCEPT !.client = i]
    /\ UNCHANGED <<cls, PATH, SUPPORTED_METHODS, fields, value, http_status_code,
                   client, client_id, result, circuit, environ, clients, afterCreate>>

\* clients[i].post(path, payload)
ClientPost(i, path, payload, outcome) ==
    /\ last' = [Call("APIClient.post", "", PyNone, "",
                     <<APIClient_post(clients[i], path, payload)>>, outcome, "",
                     ConnectWarnings(outcome), outcome)
                EXCEPT !.client = i]
    /\ UNCHANGED <<cls, PATH, SUPPORTED_METHODS, fields, value, http_status_code,
                   client, client_id, result, circuit, environ, clients, afterCreate>>

Next ==
    \/ \E r \in Resources, job_id \in JobIds, outcome \in Outcomes :
            Get(r, job_id, outcome)
    \/ \E r \in Resources, params \in Params, outcome \in Outcomes :
            Create(r, params, outcome)
    \/ \E r \in Resources, outcome \in Outcomes : Reload(r, outcome)
    \/ \E r \in Resources : \E name \in FieldNames(fields[r]) :
            ReadCleanedValue(r, name)
    \/ \E r \in Resources : \E name \in FieldNames(fields[r]) :
            ReadBool(r, name)
    \/ \E r \in Resources : JobRefreshData(r)

Spec == Init /\ [][Next]_vars

\* A session that constructs APIClient objects and no resource, in any
\* environment
InitClient ==
    /\ cls = <<>>
    /\ PATH = <<>>
    /\ SUPPORTED_METHODS = <<>>
    /\ fields = <<>>
    /\ value = <<>>
    /\ http_status_code = <<>>
    /\ client = <<>>
    /\ client_id = <<>>
    /\ result = <<>>
    /\ circuit = <<>>
    /\ afterCreate = <<>>
    /\ environ \in Environs
    /\ clients = <<>>
    /\ last = NoCall

NextClient ==
    \/ \E kwargs \in Kwargs : ConstructAPIClient(kwargs)
    \/ \E i \in 1..Len(clients), token \in Tokens : SetAuthorizationHeader(i, token)
    \/ \E i \in 1..Len(clients), path \in ClientPaths, outcome \in ClientOutcomes :
            ClientGet(i, path, outcome)
    \/ \E i \in 1..Len(clients), path \in ClientPaths, payload \in Params,
          outcome \in ClientOutcomes :
            ClientPost(i, path, payload, outcome)

SpecClient == InitClient /\ [][NextClient]_vars

\* A session with two resources r1 and r2

\* What the transport answers in the session with two resources
TwoOutcomes ==
    {PyNone,
     Response(201, [id |-> PyInt(42), status |-> PyStr("queued")]),
     Response(200, [id |-> PyInt(0), result |-> PyStr("null")]),
     Response(200, <<>>),
     Response(404, ErrorBody)}

\* Keyword arguments of the APIClient the caller hands to a resource
SuppliedKwargs == [use_ssl |-> PyBool(FALSE)]

\* r1 = Job(); r2 = Job()
TwoJobs ==
    LET rs == {"r1", "r2"}
    IN /\ cls = [r \in rs |-> "Job"]
       /\ PATH = [r \in rs |-> "jobs"]
       /\ SUPPORTED_METHODS = [r \in rs |-> {"GET", "POST"}]
       /\ fields = [r \in rs |-> Job_fields]
       /\ value = [r \in rs |-> [n \in FieldNames(Job_fields) |-> PyNone]]
       /\ http_status_code = [r \in rs |-> PyNone]
       /\ environ = NoEnviron
       /\ clients = <<>>
       /\ client = [r \in rs |-> ResourceManager__init__(r, <<>>).client]
       /\ client_id = [r \in rs |-> ResourceManager__init__(r, <<>>).client_id]
       /\ result = [r \in rs |-> PyNone]
       /\ circuit = [r \in rs |-> PyNone]
       /\ afterCreate = [r \in rs |-> PyNone]
       /\ last = NoCall

\* c = APIClient(use_ssl=False); r1 = Resource(client=c); r2 = Job()
SuppliedClient ==
    /\ cls = ("r1" :> "Resource") @@ ("r2" :> "Job")
    /\ PATH = ("r1" :> "") @@ ("r2" :> "jobs")
    /\ SUPPORTED_METHODS = ("r1" :> {}) @@ ("r2" :> {"GET", "POST"})
    /\ fields = ("r1" :> <<>>) @@ ("r2" :> Job_fields)
    /\ value = ("r1" :> <<>>) @@ ("r2" :> [n \in FieldNames(Job_fields) |-> PyNone])
    /\ http_status_code = ("r1" :> PyNone) @@ ("r2" :> PyNone)
    /\ environ = NoEnviron
    /\ clients = APIClient__init__(SuppliedKwargs, environ).self
    /\ client = ("r1" :> ResourceManager__init__("r1", <<1>>).client)
                    @@ ("r2" :> ResourceManager__init__("r2", <<>>).client)
    /\ client_id = ("r1" :> ResourceManager__init__("r1", <<1>>).client_id)
                    @@ ("r2" :> ResourceManager__init__("r2", <<>>).client_id)
    /\ result = ("r2" :> PyNone)
    /\ circuit = ("r2" :> PyNone)
    /\ afterCreate = ("r1" :> PyNone) @@ ("r2" :> PyNone)
    /\ last = NoCall

InitTwo == TwoJobs \/ SuppliedClient

NextTwo ==
    \/ \E r \in Resources, outcome \in TwoOutcomes : Get(r, PyInt(42), outcome)
    \/ \E r \in Resources, outcome \in TwoOutcomes : Create(r, <<>>, outcome)
    \/ \E r \in Resources, outcome \in TwoOutcomes : Reload(r, outcome)

SpecTwo == InitTwo /\ [][NextTwo]_vars

-----------------------------------------------------------------------------
(* Properties *)

\* The verb a manager operation needs in SUPPORTED_METHODS
Verb(op) == IF op = "create" THEN "POST" ELSE "GET"

\* The last call received a response with status code 200 or 201
LastSucceeded ==
    /\ last.op \in {"get", "create", "reload"}
    /\ last.response # PyNone
    /\ last.response[2] \in {200, 201}

\* The last call received a response with another status code
LastFailed ==
    /\ last.op \in {"get", "create", "reload"}
    /\ last.response # PyNone
    /\ last.response[2] \notin {200, 201}

\* C1: manager.get on a resource without GET in SUPPORTED_METHODS, and
\* manager.create on one without POST, raises MethodNotSupportedException and
\* sends no request, for every resource class.
C1_UnsupportedMethodRejected ==
    (last.op \in {"get", "create"}
        /\ Verb(last.op) \notin SUPPORTED_METHODS[last.res])
    => (last.raised = "MethodNotSupportedException" /\ last.sent = <<>>)

C1_Witness ==
    /\ last.op = "get"
    /\ cls[last.res] = "Resource"
    /\ last.raised = "MethodNotSupportedException"

\* C2: create on a Job whose id Field holds a value raises
\* ObjectAlreadyCreatedException and sends no request.
C2_CreateWithIdRejected ==
    [][\A r \in Resources :
        (last'.op = "create" /\ last'.res = r /\ cls[r] = "Job"
            /\ value[r]["id"] # PyNone)
        => (last'.raised = "ObjectAlreadyCreatedException" /\ last'.sent = <<>>)]_vars

C2_Witness ==
    /\ last.op = "create"
    /\ last.raised = "ObjectAlreadyCreatedException"
    /\ value[last.res]["id"] = PyInt(0)

\* C3 as claimed: reload on a resource whose id is None, 0 or "" sends no
\* request and does not raise.
C3_ReloadFalsyIdIsNoOp ==
    [][\A r \in Resources :
        (last'.op = "reload" /\ last'.res = r /\ "id" \in FieldNames(fields[r])
            /\ value[r]["id"] \in {PyNone, PyInt(0), PyStr("")})
        => (last'.sent = <<>> /\ last'.raised = "")]_vars

\* C3 amended: reload on a resource whose id is None sends no request, does
\* not raise, changes nothing and warns; an id of 0 or "" counts as present and
\* reload sends the GET.
C3_ReloadAbsentIdIsNoOp ==
    [][\A r \in Resources :
        (last'.op = "reload" /\ last'.res = r /\ "id" \in FieldNames(fields[r]))
        => /\ value[r]["id"] = PyNone
                => /\ last'.sent = <<>>
                   /\ last'.raised = ""
                   /\ last'.warnings = <<"Could not reload resource data">>
                   /\ value' = value
                   /\ http_status_code' = http_status_code
           /\ value[r]["id"] \in {PyInt(0), PyStr("")}
                => /\ Len(last'.sent) = 1
                   /\ last'.sent[1].method = "GET"]_vars

C3_Witness ==
    /\ last.op = "reload"
    /\ cls[last.res] = "Job"
    /\ value[last.res]["id"] = PyNone
    /\ last.sent = <<>>
    /\ last.warnings = <<"Could not reload resource data">>

\* C4: after a 200/201 response with body P every field holds P[name] when P
\* has that key and None otherwise, keys of P that name no field are ignored,
\* and nothing is raised.
C4_RefreshIsFullReplace ==
    LastSucceeded =>
        LET r == last.res
            P == last.response[3]
        IN /\ last.raised = ""
           /\ DOMAIN value[r] = FieldNames(fields[r])
           /\ \A n \in FieldNames(fields[r]) :
                value[r][n] = IF n \in DOMAIN P THEN P[n] ELSE PyNone

C4_Witness ==
    /\ LastSucceeded
    /\ cls[last.res] = "Job"
    /\ last.response = Response(201, [id |-> PyInt(42), status |-> PyStr("queued")])
    /\ value[last.res]["id"] = PyInt(42)
    /\ value[last.res]["status"] = PyStr("queued")
    /\ \A n \in FieldNames(Job_fields) \ {"id", "status"} :
            value[last.res][n] = PyNone

\* The error the specification assigns to a status code
ErrorOfStatus(status_code) ==
    CASE status_code = 400 -> "ValidationError"
      [] status_code = 401 -> "AuthenticationError"
      [] status_code = 409 -> "ConflictError"
      [] status_code \in {500, 503, 504} -> "ServerError"
      [] OTHER -> "UnexpectedStatusError"

\* C5: a response with a status code other than 200/201 gives the caller the
\* error of that status code (ValidationError for 400, AuthenticationError for
\* 401, ConflictError for 409, ServerError for 500/503/504,
\* UnexpectedStatusError otherwise), never a silent pass.
C5_ErrorStatusSurfaced ==
    LastFailed => last.raised = ErrorOfStatus(last.response[2])

\* C6: a response with a status code other than 200/201 leaves every Field
\* value as it was before the call.
C6_ErrorStatusKeepsFields ==
    [][(last'.op \in {"get", "create", "reload"}
            /\ last'.response # PyNone
            /\ last'.response[2] \notin {200, 201})
        => value' = value]_vars

C6_Witness ==
    /\ LastFailed
    /\ last.response[2] = 409
    /\ cls[last.res] = "Job"
    /\ value[last.res]["id"] = PyInt(42)

\* C7: when the transport answers the request of get or create with a
\* connection failure, the caller gets a TransportError.
C7_ConnectionFailureSurfaced ==
    (last.op \in {"get", "create"} /\ last.sent # <<>> /\ last.response = PyNone)
    => last.raised = "TransportError"

\* C8 as claimed: after a successful create or fetch the id of the resource
\* is present.
C8_SuccessPopulatesId ==
    (LastSucceeded /\ "id" \in FieldNames(fields[last.res]))
    => value[last.res]["id"] # PyNone

\* C8 amended: after a successful create or fetch the id is present exactly
\* when the response body carries a non-null id, and it is then that id.
C8_SuccessTakesIdFromResponse ==
    (LastSucceeded /\ "id" \in FieldNames(fields[last.res]))
    => LET id == value[last.res]["id"]
           P == last.response[3]
       IN /\ (id # PyNone) <=> ("id" \in DOMAIN P /\ P["id"] # PyNone)
          /\ (id # PyNone) => id = P["id"]

C8_Witness ==
    /\ LastSucceeded
    /\ last.op = "create"
    /\ last.response[2] = 201
    /\ value[last.res]["id"] = PyInt(42)

\* C9: a get by the id a successful create returned, answered with the field
\* values of the create response, leaves every field as the create left it.
C9_CreateFetchRoundTrip ==
    \A r \in Resources :
        (/\ LastSucceeded
         /\ last.op = "get"
         /\ last.res = r
         /\ afterCreate[r] # PyNone
         /\ "id" \in DOMAIN afterCreate[r][2]
         /\ last.job_id = afterCreate[r][2]["id"]
         /\ \A n \in FieldNames(fields[r]) :
                dict_get(last.response[3], n) = dict_get(afterCreate[r][2], n))
        => value[r] = afterCreate[r][3]

C9_Witness ==
    /\ LastSucceeded
    /\ last.op = "get"
    /\ afterCreate[last.res] # PyNone
    /\ last.job_id = PyInt(42)
    /\ afterCreate[last.res][2] = [id |-> PyInt(42), status |-> PyStr("queued")]
    /\ last.response[3] = afterCreate[last.res][2]
    /\ value[last.res]["status"] = PyStr("queued")

\* C10 as claimed: cleaned_value is None if and only if the raw value is None.
C10_CleanedNoneIffRawNone ==
    (last.op = "cleaned_value" /\ last.raised = "")
    => ((last.result = PyNone) <=> (value[last.res][last.field] = PyNone))

\* C10 amended: cleaned_value is None when the raw value is None and otherwise
\* is clean(raw value), which json.loads makes None for the text "null";
\* reading it leaves every Field as it was.
C10_CleanedValueFollowsRaw ==
    [][last'.op = "cleaned_value" =>
        LET r == last'.res
            raw == value[r][last'.field]
            c == Clean(CleanOf(fields[r], last'.field), raw)
        IN /\ value' = value
           /\ IF raw = PyNone THEN last'.result = PyNone /\ last'.raised = ""
              ELSE IF IsRaise(c) THEN last'.raised = c[2]
              ELSE last'.result = c /\ last'.raised = ""]_vars

C10_Witness ==
    /\ last.op = "cleaned_value"
    /\ last.field = "result"
    /\ value[last.res]["result"] = PyStr("null")
    /\ last.raised = ""
    /\ last.result = PyNone

\* C11: the truth value of a Field is true exactly when its raw value is not
\* None, also for the raw values 0 and "".
C11_BoolIffRawPresent ==
    last.op = "bool" =>
        /\ last.result \in {PyBool(TRUE), PyBool(FALSE)}
        /\ (last.result = PyBool(TRUE)) <=> (value[last.res][last.field] # PyNone)

C11_Witness ==
    /\ last.op = "bool"
    /\ value[last.res][last.field] = PyInt(0)
    /\ last.result = PyBool(TRUE)

\* C12: reading cleaned_value of a field whose raw value clean cannot parse
\* signals a TypeCoercionError.
C12_CoercionErrorSignalled ==
    (/\ last.op = "cleaned_value"
     /\ value[last.res][last.field] # PyNone
     /\ IsRaise(Clean(CleanOf(fields[last.res], last.field),
                      value[last.res][last.field])))
    => last.raised = "TypeCoercionError"

\* C13: reload on a resource without an id field raises (TypeError, the
\* specification's StateError), sends no request and changes nothing.
C13_ReloadWithoutIdFieldRaises ==
    [][\A r \in Resources :
        (last'.op = "reload" /\ last'.res = r /\ "id" \notin FieldNames(fields[r]))
        => /\ last'.raised = "TypeError"
           /\ last'.sent = <<>>
           /\ value' = value
           /\ http_status_code' = http_status_code]_vars

C13_Witness ==
    /\ last.op = "reload"
    /\ cls[last.res] = "JobResult"
    /\ last.raised = "TypeError"
    /\ last.sent = <<>>

\* C14: reload on a resource whose id is present sends exactly one GET, to
\* PATH joined with the text of the id, and does with the outcome what
\* manager.get does.
C14_ReloadDelegatesToGet ==
    [][\A r \in Resources :
        (/\ last'.op = "reload"
         /\ last'.res = r
         /\ "id" \in FieldNames(fields[r])
         /\ value[r]["id"] # PyNone)
        => LET id == value[r]["id"]
               g == ResourceManager_get(r, py_str(id), last'.response)
           IN /\ Len(last'.sent) = 1
              /\ last'.sent[1].method = "GET"
              /\ last'.sent[1].url =
                    client[r].BASE_URL \o "/" \o PATH[r] \o "/" \o py_str(id)
              /\ value'[r] = g.value
              /\ http_status_code'[r] = g.http_status_code
              /\ last'.raised = g.raised]_vars

C14_Witness ==
    /\ last.op = "reload"
    /\ cls[last.res] = "Job"
    /\ Len(last.sent) = 1
    /\ last.sent[1].method = "GET"
    /\ last.sent[1].url = "https://localhost/jobs/42"

\* C15: after a successful create or fetch that leaves a Job with an id, the
\* attributes result and circuit of the Job are not None.
C15_SubResourcesAttached ==
    (LastSucceeded /\ cls[last.res] = "Job" /\ value[last.res]["id"] # PyNone)
    => (result[last.res] # PyNone /\ circuit[last.res] # PyNone)

\* C16: every GET for a JobResult or JobCircuit goes to its PATH
\* (jobs/J/result, jobs/J/circuit) with nothing appended.
C16_SubResourcePathExact ==
    (/\ last.op \in {"get", "reload"}
     /\ last.sent # <<>>
     /\ cls[last.res] \in {"JobResult", "JobCircuit"})
    => last.sent[1].url = client[last.res].BASE_URL \o "/" \o PATH[last.res]

\* The resources that have an id field
WithId == {r \in Resources : "id" \in FieldNames(fields[r])}

\* C20 as claimed: an id that is present stays present after every operation.
C20_IdStaysPresent ==
    [][\A r \in WithId : value[r]["id"] # PyNone => value'[r]["id"] # PyNone]_vars

\* C20 amended: an id that is present becomes absent only by a get or reload
\* answered 200/201 with a body that carries no non-null id, and while the id
\* is present no call sends a POST.
C20_IdLostOnlyByRefresh ==
    [][\A r \in WithId :
        value[r]["id"] # PyNone
        => /\ value'[r]["id"] = PyNone
                => /\ last'.op \in {"get", "reload"}
                   /\ last'.res = r
                   /\ last'.response # PyNone
                   /\ last'.response[2] \in {200, 201}
                   /\ dict_get(last'.response[3], "id") = PyNone
           /\ \A i \in 1..Len(last'.sent) : last'.sent[i].method # "POST"]_vars

C20_Witness ==
    /\ last.op = "get"
    /\ LastSucceeded
    /\ afterCreate[last.res] # PyNone
    /\ dict_get(afterCreate[last.res][2], "id") = PyInt(42)
    /\ value[last.res]["id"] = PyNone

\* C17: set_authorization_header(token) returns without error and leaves
\* Authorization = token in the headers the APIClient sends with every later
\* request.
C17_AuthorizationHeaderSet ==
    last.op = "set_authorization_header" =>
        /\ last.raised = ""
        /\ dict_get(clients[last.client].HEADERS, "Authorization") = last.token

\* The value a configuration key resolves to: the keyword argument if given,
\* else the environment variable if set, else the default
Resolved(kwargs, env, key, env_key, default) ==
    IF key \in DOMAIN kwargs THEN kwargs[key]
    ELSE IF env[env_key] # PyNone THEN env[env_key]
    ELSE default

\* What a configured use_ssl means: the variable SF_API_USE_SSL holds the text
\* True or False
MeansTrue(v) == v \in {PyBool(TRUE), PyStr("True")}

\* C18: a constructed APIClient holds per key the keyword argument, else the
\* environment value, else the default; its BASE_URL is https when the
\* resolved use_ssl means true, and http with a warning when it means false.
C18_ConfigurationResolved ==
    (last.op = "APIClient" /\ last.raised = "") =>
        LET c == clients[last.client]
            use_ssl == Resolved(last.kwargs, environ, "use_ssl", ENV_USE_SSL_KEY,
                                PyBool(TRUE))
            hostname == Resolved(last.kwargs, environ, "hostname",
                                 ENV_API_HOSTNAME_KEY, PyStr(DEFAULT_HOSTNAME))
            token == Resolved(last.kwargs, environ, "authentication_token",
                              ENV_AUTHENTICATION_TOKEN_KEY, PyNone)
        IN /\ c.USE_SSL = use_ssl
           /\ c.HOSTNAME = hostname
           /\ c.AUTHENTICATION_TOKEN = token
           /\ c.BASE_URL = (IF MeansTrue(use_ssl) THEN "https" ELSE "http")
                                \o "://" \o py_str(hostname)
           /\ MeansTrue(use_ssl) <=> last.warnings = <<>>

\* C19: constructing an APIClient whose resolved hostname is None or outside
\* ALLOWED_HOSTNAMES raises (ValueError, the specification's
\* ConfigurationError) and yields no object; every APIClient that exists has
\* a hostname of ALLOWED_HOSTNAMES.
C19_HostnameAllowed ==
    [][last'.op = "APIClient" =>
        LET hostname == Resolved(last'.kwargs, environ, "hostname",
                                 ENV_API_HOSTNAME_KEY, PyStr(DEFAULT_HOSTNAME))
        IN /\ IF hostname = PyNone
                 \/ hostname \notin {PyStr(h) : h \in ALLOWED_HOSTNAMES}
              THEN last'.raised = "ValueError" /\ clients' = clients
              ELSE last'.raised = "" /\ Len(clients') = Len(clients) + 1
           /\ \A i \in 1..Len(clients') :
                clients'[i].HOSTNAME \in {PyStr(h) : h \in ALLOWED_HOSTNAMES}]_vars

C19_Witness ==
    /\ last.op = "APIClient"
    /\ last.raised = "ValueError"
    /\ dict_get(last.kwargs, "hostname") = PyStr("example.com")
    /\ Len(clients) = 1
    /\ clients[1].HOSTNAME = PyStr("localhost")

\* C21: a manager.get or manager.create that is rejected by a precondition
\* (MethodNotSupportedException, ObjectAlreadyCreatedException) leaves the
\* whole state of the resource as it was: the raw value of every field and
\* the manager's http_status_code.
C21_RejectedCallChangesNothing ==
    [][(last'.op \in {"get", "create"}
           /\ last'.raised \in {"MethodNotSupportedException",
                                "ObjectAlreadyCreatedException"})
        => /\ value' = value
           /\ http_status_code' = http_status_code]_vars

C21_Witness ==
    /\ last.op = "create"
    /\ last.raised = "ObjectAlreadyCreatedException"
    /\ value[last.res]["id"] = PyInt(42)
    /\ value[last.res]["status"] = PyStr("complete")
    /\ http_status_code[last.res] = PyInt(200)

\* C22: the manager's http_status_code is None until the first response; a
\* get, create or reload that receives a response, success or error, leaves
\* it equal to the status code of that response; every call that sends no
\* request or ends in a connection failure leaves it as it was.
C22_StatusCodeIsLastResponse ==
    /\ \A r \in DOMAIN http_status_code : http_status_code[r] = PyNone
    /\ [][/\ \A r \in DOMAIN http_status_code :
               (http_status_code[r] = PyNone /\ http_status_code'[r] # PyNone)
                   => (last'.res = r /\ last'.response # PyNone)
          /\ IF last'.op \in {"get", "create", "reload"}
                /\ last'.sent # <<>> /\ last'.response # PyNone
             THEN http_status_code' =
                    [http_status_code EXCEPT ![last'.res] = PyInt(last'.response[2])]
             ELSE http_status_code' = http_status_code]_vars

C22_Witness ==
    /\ last.op = "reload"
    /\ last.sent # <<>>
    /\ last.response = PyNone
    /\ last.raised = "AttributeError"
    /\ http_status_code[last.res] = PyInt(404)

\* C23: there is no retry: a call of manager.get, manager.create or reload
\* sends at most one request, whatever its outcome (success, error status,
\* connection failure), and a call that is rejected or skipped sends none.
C23_AtMostOneRequest ==
    last.op \in {"get", "create", "reload"} =>
        /\ Len(last.sent) <= 1
        /\ (last.response # PyNone \/ last.warnings = <<"Could not connect to server">>)
                => Len(last.sent) = 1
        /\ last.raised \in {"MethodNotSupportedException",
                            "ObjectAlreadyCreatedException", "TypeError"}
                => last.sent = <<>>

C23_Witness ==
    /\ last.op = "get"
    /\ last.response = PyNone
    /\ last.warnings = <<"Could not connect to server">>
    /\ Len(last.sent) = 1

\* C26: the static description of a resource is fixed at construction: no
\* create, get, reload or refresh changes its class, its PATH (the bound job
\* id included), its SUPPORTED_METHODS or the names and order of its fields;
\* a call changes raw field values only, and these stay one value for each
\* declared field.
C26_DescriptorFixed ==
    [][/\ cls' = cls
       /\ PATH' = PATH
       /\ SUPPORTED_METHODS' = SUPPORTED_METHODS
       /\ fields' = fields
       /\ \A r \in DOMAIN value' : DOMAIN value'[r] = FieldNames(fields[r])]_vars

C26_Witness ==
    /\ last.op = "get"
    /\ LastSucceeded
    /\ cls[last.res] = "JobResult"
    /\ PATH[last.res] = "jobs/7/result"
    /\ SUPPORTED_METHODS[last.res] = {"GET"}
    /\ fields[last.res] = JobResult_fields
    /\ value[last.res]["result"] = PyStr("[1, 2]")

\* A raw value that is present and that the clean function of its field rejects
Uncoercible(r, name) ==
    /\ value[r][name] # PyNone
    /\ IsRaise(Clean(CleanOf(fields[r], name), value[r][name]))

C24_ResourcesIsolated ==
    [][\A r \in Resources :
          r # last'.res => /\ value'[r] = value[r]
                           /\ http_status_code'[r] = http_status_code[r]]_vars

C24_Witness ==
    /\ cls["r1"] = "Job"
    /\ last.res = "r2"
    /\ last.op = "get"
    /\ value["r1"]["id"] = PyInt(42)
    /\ http_status_code["r1"] = PyInt(201)
    /\ value["r2"]["id"] = PyInt(0)
    /\ http_status_code["r2"] = PyInt(200)

\* C25 as claimed: one APIClient is constructed for the session and reused:
\* all managers created without a client of the caller hold the same APIClient
\* object, and a manager created with a client of the caller holds exactly
\* that object.
C25_ClientSharedBySession ==
    /\ \A a \in Resources, b \in Resources :
          (client_id[a][1] = "manager" /\ client_id[b][1] = "manager")
              => client_id[a] = client_id[b]
    /\ \A r \in Resources :
          client_id[r][1] = "caller" => client[r] = clients[client_id[r][2]]

====
